---- MODULE Spec2Model ----
(***************************************************************************)
(* Gold / A-share rotation backtest: the signal engine and the performance *)
(* summary (strategies/rotation_strategy.py), the price normalizer and the *)
(* gold acquisition layer (src/data_fetcher.py).                           *)
(*                                                                         *)
(* Calendar days are numbered from day 1 = Wednesday 2024-10-30, so        *)
(* day 2 = Thursday 2024-10-31 (a calendar month end), day 3 = Friday      *)
(* 2024-11-01, days 4 and 5 the weekend, day 6 = Monday 2024-11-04.        *)
(* A close price is a positive integer.  A return or a momentum is the     *)
(* rational n/d kept as the record [n |-> n, d |-> d] with d > 0, and is   *)
(* compared by cross multiplication.                                       *)
(***************************************************************************)
EXTENDS Integers, Sequences, FiniteSets, Bags

VARIABLES
    gold,       \* the gold series handed to generate_signals: rows [Date, Close]
    equity,     \* the equity series handed to generate_signals: rows [Date, Close]
    cfg,        \* <<the RotationConfig constructed>>, or <<>> before construction
    out,        \* what the last generate_signals call did: steps run, error, rows
    prevOut,    \* the output of the call before a close price was changed
    changedAt,  \* the row whose close was changed between the two calls (0: none)
    cache,      \* the gold cache file: whether it exists, and its rows
    req,        \* the arguments of the fetch_gold_futures call in progress
    pc,         \* where that call stands: idle, akshare, stooq, yahoo, done
    cand,       \* the akshare candidate tried next (1..3)
    attempt,    \* the attempt number of the Yahoo loop
    calls,      \* the cache accesses and provider calls of the call, in order
    sleeps,     \* the time.sleep durations of the call, in order
    last_exc,   \* last_exc of the Yahoo loop
    data,       \* data of the Yahoo loop: the last frame downloaded
    result,     \* how the call ended: rows returned, or the exception raised
    got,        \* what each entry of calls produced: rows, none, error, written
    accepted,   \* the provider whose frame the call took, and that frame
    raw,        \* the raw table handed to _clean_price_dataframe
    sym,        \* the symbol handed to _clean_price_dataframe
    norm,       \* what _clean_price_dataframe(raw, symbol) did
    renorm,     \* what _clean_price_dataframe did on its own result
    returns,    \* the daily return series handed to performance_summary
    summary     \* what performance_summary(returns) returned

signalVars == <<gold, equity, cfg, out, prevOut, changedAt>>
fetchVars ==
    <<cache, req, pc, cand, attempt, calls, sleeps, last_exc, data, result,
      got, accepted>>
normVars == <<raw, sym, norm, renorm>>
summaryVars == <<returns, summary>>
vars == <<signalVars, fetchVars, normVars, summaryVars>>

(***************************************************************************)
(* Bounds of the model.                                                    *)
(***************************************************************************)
MaxLookback == 2     \* lookback_days is drawn from -1..MaxLookback

\* cfg is <<>> before a RotationConfig is constructed and <<config>> after.
NoConfig == <<>>
\* out before generate_signals has been called.
NoOutput == [called |-> FALSE, steps |-> <<>>, error |-> "none", rows |-> <<>>]

\* The days a series may have a row for: Wed, Thu, Fri and the next Monday.
TradingDays == {1, 2, 3, 6}
GoldCloses == {1, 2, 3}
EquityCloses == {1, 2}

(***************************************************************************)
(* RotationConfig                                                          *)
(***************************************************************************)
DefaultFeeBps == 5
DefaultCashSymbol == "CASH"

RotationConfig(lookback, mode) ==
    [lookback_days |-> lookback, rebalance |-> mode,
     fee_bps |-> DefaultFeeBps, cash_symbol |-> DefaultCashSymbol]

SupportedModes == {"daily", "weekly", "monthly"}

(***************************************************************************)
(* Small helpers on sequences and rationals                                *)
(***************************************************************************)
Rat(n, d) == [n |-> n, d |-> d]
Zero == Rat(0, 1)
\* The missing value of a float column (a denominator of 0 marks it).
NaN == Rat(0, 0)
IsNaN(a) == a.d = 0
RatGT(a, b) == a.n * b.d > b.n * a.d
RatLE0(a) == a.n <= 0

SetMin(S) == CHOOSE x \in S : \A y \in S : x <= y

RECURSIVE SortedSeq(_)
SortedSeq(S) ==
    IF S = {} THEN <<>> ELSE <<SetMin(S)>> \o SortedSeq(S \ {SetMin(S)})

DatesOf(series) == {series[i].Date : i \in 1..Len(series)}
RowAt(series, d) == series[CHOOSE i \in 1..Len(series) : series[i].Date = d]

(***************************************************************************)
(* _prepare_prices: inner join of the two close columns on Date, sorted.   *)
(***************************************************************************)
PreparePrices(g, e) ==
    LET common == SortedSeq(DatesOf(g) \cap DatesOf(e))
    IN  [i \in 1..Len(common) |->
            [Date |-> common[i],
             GOLD |-> RowAt(g, common[i]).Close,
             EQUITY |-> RowAt(e, common[i]).Close]]

\* DataFrame.pct_change(periods): price[i] / price[i - periods] - 1, NaN where
\* row i - periods does not exist.
PctChange(prices, periods, col, i) ==
    LET j == i - periods
    IN  IF j \in 1..Len(prices)
        THEN Rat(prices[i][col] - prices[j][col], prices[j][col])
        ELSE NaN

\* prices.pct_change().fillna(0.0)
DailyRet(prices) ==
    [i \in 1..Len(prices) |->
        [GOLD |-> IF IsNaN(PctChange(prices, 1, "GOLD", i)) THEN Zero
                  ELSE PctChange(prices, 1, "GOLD", i),
         EQUITY |-> IF IsNaN(PctChange(prices, 1, "EQUITY", i)) THEN Zero
                    ELSE PctChange(prices, 1, "EQUITY", i)]]

\* prices.pct_change(cfg.lookback_days)
Momentum(prices, lookback) ==
    [i \in 1..Len(prices) |->
        [GOLD |-> PctChange(prices, lookback, "GOLD", i),
         EQUITY |-> PctChange(prices, lookback, "EQUITY", i)]]

(***************************************************************************)
(* _rebalance_index: the labels of the resampled bins.  "W-FRI" labels a   *)
(* week by its Friday and "M" labels a month by its last calendar day; the *)
(* bins run from the bin of the first row to the bin of the last row.      *)
(***************************************************************************)
IsFriday(d) == d % 7 = 3
WeekLabel(d) == d + ((10 - (d % 7)) % 7)
MonthEnds == <<2, 32, 63, 94>>
MonthLabel(d) == MonthEnds[SetMin({k \in 1..Len(MonthEnds) : MonthEnds[k] >= d})]

RebalanceIndex(prices, mode) ==
    LET n == Len(prices)
        lastDay == IF n = 0 THEN 0 ELSE MonthLabel(prices[n].Date)
    IN  IF n = 0 THEN {}
        ELSE CASE mode = "daily" -> {prices[i].Date : i \in 1..n}
               [] mode = "weekly" ->
                    {d \in WeekLabel(prices[1].Date)..WeekLabel(prices[n].Date) :
                        IsFriday(d)}
               [] mode = "monthly" ->
                    {MonthEnds[k] : k \in {k \in 1..Len(MonthEnds) :
                        /\ MonthEnds[k] >= MonthLabel(prices[1].Date)
                        /\ MonthEnds[k] <= lastDay}}

\* momentum.reindex(rebalance_dates).dropna(): the rows of the table whose date
\* is a label and whose momentum is defined for both assets.
MomentumReb(prices, momentum, labels) ==
    {i \in 1..Len(prices) :
        /\ prices[i].Date \in labels
        /\ ~IsNaN(momentum[i].GOLD)
        /\ ~IsNaN(momentum[i].EQUITY)}

\* idxmax(axis=1): the first column holding the row maximum.
IdxMax(m) == IF RatGT(m.EQUITY, m.GOLD) THEN "EQUITY" ELSE "GOLD"

\* A variant that goes to cash only on a strictly negative maximum.
PositionRawStrict(m, cash) ==
    IF m.GOLD.n < 0 /\ m.EQUITY.n < 0 THEN cash ELSE IdxMax(m)

\* position_raw at a decision row: the idxmax pick, overwritten by the cash
\* symbol where the row maximum is <= 0.
PositionRaw(m, cash) ==
    IF RatLE0(m.GOLD) /\ RatLE0(m.EQUITY) THEN cash ELSE IdxMax(m)

\* A variant without the forward fill: a day that is not a decision day gets
\* the cash symbol.
SignalSeriesNoFill(prices, momentum, decided, cash) ==
    [i \in 1..Len(prices) |->
        IF i \in decided THEN PositionRaw(momentum[i], cash) ELSE cash]

\* pick_df["position_raw"].reindex(daily_ret.index).ffill().fillna(cash)
SignalSeries(prices, momentum, decided, cash) ==
    [i \in 1..Len(prices) |->
        LET earlier == {j \in decided : j <= i}
        IN  IF earlier = {} THEN cash
            ELSE LET j == CHOOSE j \in earlier : \A k \in earlier : k <= j
                 IN  PositionRaw(momentum[j], cash)]

\* A variant that acts on the signal the day it is decided (no shift).
ExecPositionNoLag(signal, cash) == signal

\* A variant that back-fills the first day from the first signal.
ExecPositionBackfill(signal, cash) ==
    [i \in 1..Len(signal) |-> IF i = 1 THEN signal[1] ELSE signal[i - 1]]

\* A variant that leaves the shifted-in first value missing.
ExecPositionNoFill(signal, cash) ==
    [i \in 1..Len(signal) |-> IF i = 1 THEN "nan" ELSE signal[i - 1]]

\* signal_series.shift(1).fillna(cash)
ExecPosition(signal, cash) ==
    [i \in 1..Len(signal) |-> IF i = 1 THEN cash ELSE signal[i - 1]]

\* A round-trip variant: leaving one asset and entering another counts twice.
TurnoverRoundTrip(exec, cash) ==
    [i \in 1..Len(exec) |->
        LET before == IF i = 1 THEN cash ELSE exec[i - 1]
        IN  IF exec[i] = before THEN 0
            ELSE IF exec[i] # cash /\ before # cash THEN 2 ELSE 1]

\* (exec_position != exec_position.shift(1).fillna(cash)).astype(float)
Turnover(exec, cash) ==
    [i \in 1..Len(exec) |->
        IF exec[i] # (IF i = 1 THEN cash ELSE exec[i - 1]) THEN 1 ELSE 0]

\* turnover * (fee_bps / 10000), kept in units of 1/10000.
Fee(turnover, fee_bps) == [i \in 1..Len(turnover) |-> turnover[i] * fee_bps]

\* alloc_gold * gold_ret + alloc_equity * equity_ret
GrossRet(position, ret) ==
    IF position = "GOLD" THEN ret.GOLD
    ELSE IF position = "EQUITY" THEN ret.EQUITY
    ELSE Zero

(***************************************************************************)
(* generate_signals.  The result records the computation steps that ran,   *)
(* the exception that ended the call ("none" if it returned) and the rows  *)
(* of the returned frame.  portfolio_ret is gross - fee / 10000.           *)
(***************************************************************************)
GenerateSignals(g, e, c) ==
    LET prices == PreparePrices(g, e)
        ret == DailyRet(prices)
        momentum == Momentum(prices, c.lookback_days)
    IN  IF c.rebalance \notin SupportedModes
        THEN [called |-> TRUE,
              steps |-> <<"prepare_prices", "daily_ret", "momentum",
                          "rebalance_index">>,
              error |-> "ValueError", rows |-> <<>>]
        ELSE
        LET labels == RebalanceIndex(prices, c.rebalance)
            decided == MomentumReb(prices, momentum, labels)
            signal == SignalSeries(prices, momentum, decided, c.cash_symbol)
            exec == ExecPosition(signal, c.cash_symbol)
            fee == Fee(Turnover(exec, c.cash_symbol), c.fee_bps)
        IN  [called |-> TRUE,
             steps |-> <<"prepare_prices", "daily_ret", "momentum",
                         "rebalance_index", "select", "lag", "fees">>,
             error |-> "none",
             rows |-> [i \in 1..Len(prices) |->
                        [Date |-> prices[i].Date,
                         signal |-> signal[i],
                         position |-> exec[i],
                         gold_ret |-> ret[i].GOLD,
                         equity_ret |-> ret[i].EQUITY,
                         portfolio_ret |->
                            [gross |-> GrossRet(exec[i], ret[i]),
                             fee |-> fee[i]]]]]

(***************************************************************************)
(* State machine of the signal engine                                      *)
(***************************************************************************)
Series(days, closes) ==
    [i \in 1..Len(days) |-> [Date |-> days[i], Close |-> closes[i]]]

\* Two clean series over the same, non-empty set of trading days.
InitSignals ==
    /\ \E D \in (SUBSET TradingDays) \ {{}} :
         \E gc \in [1..Cardinality(D) -> GoldCloses] :
           \E ec \in [1..Cardinality(D) -> EquityCloses] :
             /\ gold = Series(SortedSeq(D), gc)
             /\ equity = Series(SortedSeq(D), ec)
    /\ cfg = NoConfig
    /\ out = NoOutput
    /\ prevOut = NoOutput
    /\ changedAt = 0
    /\ cache = [exists |-> FALSE, rows |-> <<>>]
    /\ req = [start |-> 1, end |-> 0, retries |-> 0, backoff_seconds |-> 5,
              use_cache |-> FALSE]
    /\ pc = "idle"
    /\ cand = 1
    /\ attempt = 1
    /\ calls = <<>>
    /\ sleeps = <<>>
    /\ last_exc = "none"
    /\ data = [cols |-> EmptyBag, rows |-> <<>>]
    /\ result = [kind |-> "none", error |-> "none", rows |-> <<>>]
    /\ got = <<>>
    /\ accepted = [src |-> "none", frame |-> [cols |-> EmptyBag, rows |-> <<>>]]
    /\ raw = [cols |-> EmptyBag, rows |-> <<>>]
    /\ sym = ""
    /\ norm = [called |-> FALSE, error |-> "none", rows |-> <<>>]
    /\ renorm = [called |-> FALSE, error |-> "none", rows |-> <<>>]
    /\ returns = <<>>
    /\ summary = [called |-> FALSE]

\* RotationConfig(...): the dataclass stores whatever it is given.
NewConfig(lookback, mode) ==
    /\ cfg = NoConfig
    /\ cfg' = <<RotationConfig(lookback, mode)>>
    /\ UNCHANGED <<gold, equity, out, prevOut, changedAt>>
    /\ UNCHANGED <<fetchVars, normVars, summaryVars>>

\* generate_signals(gold, equity, cfg)
Generate ==
    /\ cfg # NoConfig
    /\ ~out.called
    /\ out' = GenerateSignals(gold, equity, cfg[1])
    /\ UNCHANGED <<gold, equity, cfg, prevOut, changedAt>>
    /\ UNCHANGED <<fetchVars, normVars, summaryVars>>

\* The close of one asset on the day of row t is replaced by v and
\* generate_signals is called again on the changed series.
SetClose(series, t, v) == [series EXCEPT ![t].Close = v]

RegenerateChanged(asset, t, v) ==
    /\ out.called /\ out.error = "none"
    /\ changedAt = 0
    /\ t \in 1..Len(gold)
    /\ IF asset = "GOLD"
       THEN /\ v \in GoldCloses \ {gold[t].Close}
            /\ gold' = SetClose(gold, t, v)
            /\ equity' = equity
       ELSE /\ v \in EquityCloses \ {equity[t].Close}
            /\ equity' = SetClose(equity, t, v)
            /\ gold' = gold
    /\ prevOut' = out
    /\ out' = GenerateSignals(gold', equity', cfg[1])
    /\ changedAt' = t
    /\ UNCHANGED cfg
    /\ UNCHANGED <<fetchVars, normVars, summaryVars>>

Lookbacks == (0 - 1)..MaxLookback
Modes == SupportedModes \cup {"quarterly"}

NextSignals ==
    \/ \E lookback \in Lookbacks, mode \in Modes : NewConfig(lookback, mode)
    \/ Generate
    \/ \E asset \in {"GOLD", "EQUITY"}, t \in 1..Cardinality(TradingDays),
            v \in GoldCloses :
         RegenerateChanged(asset, t, v)

(***************************************************************************)
(* Price frames of the acquisition layer (src/data_fetcher.py).            *)
(* A raw frame is [cols |-> the column labels, rows |-> the rows].  The     *)
(* labels are a bag: a rename can give two columns the same label.  A row  *)
(* is [Date, Close], where Close stands for the four price columns Open,   *)
(* High, Low, Close of the row and is "nan" when any of them is missing    *)
(* or not numeric.  A normalized row is [Date, Close, Symbol].             *)
(***************************************************************************)
MaxRetries == 3      \* retries is drawn from 0..MaxRetries
MaxDate == 2         \* dates of rows and of requested ranges: 1..MaxDate
Dates == 1..MaxDate
\* The row counts of the frames a provider returns.
RawRowCounts == {1, 2}

DefaultBackoffSeconds == 5
NoEnd == 0           \* end_date = None

RequiredCols == {"Date", "Open", "High", "Low", "Close", "Volume"}

\* The rename map of _clean_price_dataframe; the Chinese headers are written
\* in pinyin (riqi = date, kaipan = open, zuigao = high, zuidi = low,
\* shoupan = close, jiesuanjia = settlement price, chengjiaoliang = volume).
CanonicalName(c) ==
    CASE c \in {"riqi", "date"} -> "Date"
      [] c \in {"kaipan", "open"} -> "Open"
      [] c \in {"zuigao", "high"} -> "High"
      [] c \in {"zuidi", "low"} -> "Low"
      [] c \in {"shoupan", "close", "jiesuanjia"} -> "Close"
      [] c \in {"chengjiaoliang", "volume", "chengjiaoliang(shou)"} -> "Volume"
      [] OTHER -> c

\* df.rename(columns=...): every column keeps its place and takes its new
\* label, so two columns can end with the same label.
Rename(cols) == BagOfAll(CanonicalName, cols)

\* The keys of the assignment of lines 64-67.
PriceKeys == <<"Open", "High", "Low", "Close", "Volume">>

\* The column labels of df[keys]: each key once per column that carries it.
RECURSIVE Selected(_, _)
Selected(cols, keys) ==
    IF keys = <<>> THEN <<>>
    ELSE [i \in 1..CopiesIn(Head(keys), cols) |-> Head(keys)]
            \o Selected(cols, Tail(keys))

\* df[PriceKeys] = df[PriceKeys].apply(...): the keys are paired with the
\* column labels of the value, in order, and each pair must name as many
\* columns on the left as on the right.
AssignmentFits(cols) ==
    LET value == Selected(cols, PriceKeys)
    IN  \A i \in 1..Len(PriceKeys) :
           CopiesIn(value[i], cols) = CopiesIn(PriceKeys[i], cols)

(***************************************************************************)
(* sort_values("Date") of line 68 sorts with the default kind, quicksort:  *)
(* numpy's index quicksort.  A segment of more than SmallQuicksort + 1     *)
(* entries is partitioned around the median of its first, middle and last  *)
(* entry, a shorter one is sorted by insertion.  Only the insertion sort   *)
(* keeps rows of equal date in their order.  The fallback to heapsort      *)
(* after 2 * floor(log2(n)) nested partitions needs more rows than the     *)
(* tables here have.                                                       *)
(***************************************************************************)
SmallQuicksort == 16

Swap(s, i, j) == [s EXCEPT ![i] = s[j], ![j] = s[i]]

\* Insertion of entry x into a sorted run: behind every entry that is not
\* greater.
InsertEntry(v, run, x) ==
    LET k == Cardinality({n \in 1..Len(run) : v[run[n]] <= v[x]})
    IN  SubSeq(run, 1, k) \o <<x>> \o SubSeq(run, k + 1, Len(run))

RECURSIVE InsertionSort(_, _, _)
InsertionSort(v, run, rest) ==
    IF rest = <<>> THEN run
    ELSE InsertionSort(v, InsertEntry(v, run, Head(rest)), Tail(rest))

\* do ++pi while v[*pi] < vp, do --pj while vp < v[*pj]
RECURSIVE ScanUp(_, _, _, _)
ScanUp(v, s, i, vp) == IF v[s[i]] < vp THEN ScanUp(v, s, i + 1, vp) ELSE i
RECURSIVE ScanDown(_, _, _, _)
ScanDown(v, s, j, vp) == IF vp < v[s[j]] THEN ScanDown(v, s, j - 1, vp) ELSE j

\* The exchange loop of a partition, pi and pj being where the two scans
\* stopped: the entries and the place of the pivot once the scans have met.
RECURSIVE Partition(_, _, _, _, _)
Exchange(v, s, pi, pj, vp) ==
    IF pi >= pj THEN [s |-> s, pi |-> pi]
    ELSE Partition(v, Swap(s, pi, pj), pi, pj, vp)

Partition(v, s, pi, pj, vp) ==
    Exchange(v, s, ScanUp(v, s, pi + 1, vp), ScanDown(v, s, pj - 1, vp), vp)

\* if v[*i] < v[*j] then swap the two entries
SwapIfLess(v, s, i, j) == IF v[s[i]] < v[s[j]] THEN Swap(s, i, j) ELSE s

\* The median of the first, middle and last entry is brought to the middle.
MedianOfThree(v, s, pl, pm, pr) ==
    SwapIfLess(v, SwapIfLess(v, SwapIfLess(v, s, pm, pl), pr, pm), pm, pl)

\* The pivot, put aside at pr - 1 during the exchanges, is put in its place.
PlacePivot(p, pr) == [s |-> Swap(p.s, p.pi, pr - 1), pi |-> p.pi]

\* One partition of the segment pl..pr around the entry at pm, the median of
\* three.
PivotStep(v, s, pl, pm, pr) ==
    PlacePivot(Partition(v, Swap(s, pm, pr - 1), pl, pr - 1, v[s[pm]]), pr)

Middle(pl, pr) == pl + ((pr - pl) \div 2)

PartitionStep(v, s, pl, pr) ==
    PivotStep(v, MedianOfThree(v, s, pl, Middle(pl, pr), pr),
              pl, Middle(pl, pr), pr)

\* The segment pl..pr of s sorted by insertion.
SortSegment(v, s, pl, pr) ==
    SubSeq(s, 1, pl - 1)
        \o InsertionSort(v, <<>>, SubSeq(s, pl, pr))
        \o SubSeq(s, pr + 1, Len(s))

\* The loop of the sort over the stack of segments still to sort: a long
\* segment is partitioned and its two parts are pushed, a short one is sorted
\* by insertion.
RECURSIVE AQuickSort(_, _, _)
AQuickSort(v, s, stack) ==
    IF stack = <<>> THEN s
    ELSE IF Head(stack).pr - Head(stack).pl > SmallQuicksort
    THEN LET p == PartitionStep(v, s, Head(stack).pl, Head(stack).pr)
         IN  AQuickSort(v, p.s,
                        <<[pl |-> Head(stack).pl, pr |-> p.pi - 1],
                          [pl |-> p.pi + 1, pr |-> Head(stack).pr]>>
                            \o Tail(stack))
    ELSE AQuickSort(v, SortSegment(v, s, Head(stack).pl, Head(stack).pr),
                    Tail(stack))

\* The places 1, ..., n in order.
RECURSIVE Places(_)
Places(n) == IF n = 0 THEN <<>> ELSE Append(Places(n - 1), n)

\* values.argsort(kind="quicksort")
ArgSort(v) == AQuickSort(v, Places(Len(v)), <<[pl |-> 1, pr |-> Len(v)]>>)

\* sort_values("Date")
SortByDate(rows) ==
    LET order == ArgSort([i \in 1..Len(rows) |-> rows[i].Date])
    IN  [i \in 1..Len(rows) |-> rows[order[i]]]

\* _clean_price_dataframe(df, symbol): the exception raised ("none" if it
\* returns) and the normalized rows.
CleanPriceDataframe(df, symbol) ==
    LET cols == Rename(df.cols)
        withVolume == IF BagIn("Volume", cols) THEN cols
                      ELSE cols (+) SetToBag({"Volume"})
        kept == SelectSeq(df.rows, LAMBDA r : r.Close # "nan")
        sorted == SortByDate(kept)
    IN  IF df.rows = <<>> THEN [error |-> "ValueError: No data", rows |-> <<>>]
        ELSE IF ~BagIn("Date", cols) THEN [error |-> "KeyError", rows |-> <<>>]
        ELSE IF CopiesIn("Date", cols) > 1
             THEN [error |-> "ValueError: duplicate keys", rows |-> <<>>]
        ELSE IF ~(RequiredCols \subseteq BagToSet(withVolume))
             THEN [error |-> "ValueError: Missing columns", rows |-> <<>>]
        ELSE IF ~AssignmentFits(withVolume)
             THEN [error |-> "ValueError: Columns must be same length as key",
                   rows |-> <<>>]
        ELSE [error |-> "none",
              rows |-> [i \in 1..Len(sorted) |->
                          [Date |-> sorted[i].Date, Close |-> sorted[i].Close,
                           Symbol |-> symbol]]]

\* A variant whose end date is exclusive.
FilterDateRangeEndExclusive(rows, start, end) ==
    SelectSeq(rows, LAMBDA r : r.Date >= start /\ (end = NoEnd \/ r.Date < end))

\* _filter_date_range(df, start, end)
FilterDateRange(rows, start, end) ==
    SelectSeq(rows, LAMBDA r : r.Date >= start /\ (end = NoEnd \/ r.Date <= end))

\* df.to_csv(GOLD_CACHE, index=False): the file is replaced by the frame.
ToCsv(rows) == [exists |-> TRUE, rows |-> rows]

\* pd.read_csv(GOLD_CACHE, parse_dates=["Date"]): all seven columns, the rows
\* as written.
ReadCsv(file) ==
    [cols |-> SetToBag(RequiredCols \cup {"Symbol"}),
     rows |-> [i \in 1..Len(file.rows) |->
                 [Date |-> file.rows[i].Date, Close |-> file.rows[i].Close]]]

\* The cached slice of lines 136-141 and 181-187: read, normalize as GC=F,
\* filter to the requested range.
CachedSlice(file, start, end) ==
    LET cleaned == CleanPriceDataframe(ReadCsv(file), "GC=F")
    IN  [error |-> cleaned.error,
         rows |-> FilterDateRange(cleaned.rows, start, end)]

EmptyFrame == [cols |-> EmptyBag, rows |-> <<>>]
NoResult == [kind |-> "none", error |-> "none", rows |-> <<>>]
Rows(rows) == [kind |-> "rows", error |-> "none", rows |-> rows]
Raised(error) == [kind |-> "error", error |-> error, rows |-> <<>>]
NoRequest ==
    [start |-> 1, end |-> NoEnd, retries |-> 0,
     backoff_seconds |-> DefaultBackoffSeconds, use_cache |-> FALSE]

Call(src, arg) == [src |-> src, arg |-> arg]

\* A variant that tries the GOLD contract first.
CandidatesGoldFirst == <<"GOLD/COMEX", "GC/COMEX", "GC/NYMEX">>

\* candidates of _fetch_gold_from_akshare, in order.
Candidates == <<"GC/COMEX", "GOLD/COMEX", "GC/NYMEX">>

\* What a provider call can do: raise, return None, return an empty frame, or
\* return a frame with rows.
RawRows == [Date : Dates, Close : {"100", "nan"}]
RawRowSeqs == UNION {[1..n -> RawRows] : n \in RawRowCounts}
ColumnSets == {RequiredCols, RequiredCols \ {"Close"}}
\* The headers of a download that carries the adjusted close only, and of
\* one that carries the close and the adjusted close (auto_adjust=False);
\* the frames with these headers have one row, with prices.
AdjCloseCols == (RequiredCols \ {"Close"}) \cup {"Adj Close"}
BothCloseCols == RequiredCols \cup {"Adj Close"}
Frames ==
    {[cols |-> SetToBag(c), rows |-> r] : c \in ColumnSets, r \in RawRowSeqs}
        \cup {[cols |-> SetToBag(c), rows |-> <<[Date |-> d, Close |-> "100"]>>] :
                  c \in {AdjCloseCols, BothCloseCols}, d \in Dates}
Responses ==
    {[kind |-> k, frame |-> EmptyFrame] : k \in {"raise", "none", "empty"}}
        \cup {[kind |-> "rows", frame |-> f] : f \in Frames}

\* The frames handed to save_data: one row, with or without prices, and two
\* priced rows out of date order.
SavedSymbol == "000300"
SavedFrames ==
    {<<[Date |-> 1, Close |-> c, Symbol |-> SavedSymbol]>> : c \in {"100", "nan"}}
        \cup {<<[Date |-> 2, Close |-> "100", Symbol |-> SavedSymbol],
                [Date |-> 1, Close |-> "100", Symbol |-> SavedSymbol]>>}

\* The directories: the checkout (Path(__file__).resolve().parent.parent,
\* here /home/vsc---), the directories above it and the ones in it.  A path
\* is the sequence of its components from the root directory.
CheckoutDir == <<"home", "vsc---">>
DataDir == CheckoutDir \o <<"data">>
GoldCacheName == "gold_gc_f.csv"
GoldCache == DataDir \o <<GoldCacheName>>
Directories ==
    {SubSeq(CheckoutDir, 1, n) : n \in 0..Len(CheckoutDir)}
        \cup {CheckoutDir \o <<d>> :
                 d \in {"data", "src", "strategies", "backtests", "adapters"}}

\* The file names handed to save_data, a public function of the module whose
\* filename argument is joined to DATA_DIR unchecked.  validate_strategy.py
\* passes "backtest_<symbol>.csv"; the other names are the ones that lead, or
\* seem to lead, to the cache file.  A file name is the sequence of its
\* components, "./gold_gc_f.csv" is <<".", "gold_gc_f.csv">>, and an
\* absolute one starts with "/".
FileNames ==
    {<<"backtest_000300.csv">>,
     <<GoldCacheName>>,
     <<".", GoldCacheName>>,
     <<"..", "data", GoldCacheName>>,
     <<"..", "src", "..", "data", GoldCacheName>>,
     <<"..", "strategies", "..", "data", GoldCacheName>>,
     <<"..", "..", CheckoutDir[2], "data", GoldCacheName>>,
     <<"/">> \o GoldCache,
     <<"sub", "..", GoldCacheName>>}

(***************************************************************************)
(* fetch_gold_futures, one action per cache access / provider call and     *)
(* the code that follows it up to the next call.                           *)
(***************************************************************************)
InitFetch ==
    /\ cache = [exists |-> FALSE, rows |-> <<>>]
    /\ req = NoRequest
    /\ pc = "idle"
    /\ cand = 1
    /\ attempt = 1
    /\ calls = <<>>
    /\ sleeps = <<>>
    /\ last_exc = "none"
    /\ data = EmptyFrame
    /\ result = NoResult
    /\ got = <<>>
    /\ accepted = [src |-> "none", frame |-> [cols |-> EmptyBag, rows |-> <<>>]]
    /\ gold = <<>> /\ equity = <<>> /\ cfg = <<>>
    /\ out = [called |-> FALSE, steps |-> <<>>, error |-> "none", rows |-> <<>>]
    /\ prevOut = out
    /\ changedAt = 0
    /\ raw = [cols |-> EmptyBag, rows |-> <<>>]
    /\ sym = ""
    /\ norm = [called |-> FALSE, error |-> "none", rows |-> <<>>]
    /\ renorm = [called |-> FALSE, error |-> "none", rows |-> <<>>]
    /\ returns = <<>>
    /\ summary = [called |-> FALSE]

\* What a read of the cache file produced.
Outcome(slice) ==
    IF slice.error # "none" THEN "error"
    ELSE IF slice.rows # <<>> THEN "rows" ELSE "none"

NoAccepted == [src |-> "none", frame |-> EmptyFrame]
Accepted(src, frame) == [src |-> src, frame |-> frame]

\* A variant that writes the cache file whatever use_cache is.
WriteCacheAlways(r, file, rows) == ToCsv(rows)

\* if use_cache: df.to_csv(GOLD_CACHE) (lines 146-148, 154-156, 198-200): the
\* cache file after it.
WriteCache(r, file, rows) == IF r.use_cache THEN ToCsv(rows) ELSE file

\* Lines 180-192: the loop ended with data empty.
Exhausted(r, file, log, outs) ==
    IF r.use_cache /\ file.exists
    THEN LET slice == CachedSlice(file, r.start, r.end)
         IN  [calls |-> Append(log, Call("cache", "read")),
              got |-> Append(outs, Outcome(slice)),
              result |-> IF slice.error # "none" THEN Raised(slice.error)
                         ELSE IF slice.rows # <<>> THEN Rows(slice.rows)
                         ELSE Raised("RuntimeError")]
    ELSE [calls |-> log, got |-> outs, result |-> Raised("RuntimeError")]

\* Lines 160-161 with retries <= 0: the loop body never runs, data is unbound
\* at line 180.
EnterYahoo(r, log) ==
    IF r.retries >= 1
    THEN /\ pc' = "yahoo"
         /\ result' = NoResult
         /\ calls' = log
    ELSE /\ pc' = "done"
         /\ result' = Raised("UnboundLocalError")
         /\ calls' = log

\* Lines 133-141: the call starts and looks at the cache.
FetchStart(start, end, retries, use_cache, akshareAvailable) ==
    /\ pc = "idle"
    /\ req' = [start |-> start, end |-> end, retries |-> retries,
               backoff_seconds |-> DefaultBackoffSeconds, use_cache |-> use_cache]
    /\ cand' = 1
    /\ attempt' = 1
    /\ sleeps' = <<>>
    /\ last_exc' = "none"
    /\ data' = EmptyFrame
    /\ accepted' = NoAccepted
    /\ cache' = cache
    /\ LET slice == CachedSlice(cache, start, end)
           log == IF use_cache /\ cache.exists
                  THEN <<Call("cache", "read")>> ELSE <<>>
       IN  /\ got' = IF use_cache /\ cache.exists THEN <<Outcome(slice)>> ELSE <<>>
           /\ IF use_cache /\ cache.exists /\ slice.error # "none"
              THEN /\ pc' = "done"
                   /\ result' = Raised(slice.error)
                   /\ calls' = log
              ELSE IF use_cache /\ cache.exists /\ slice.rows # <<>>
              THEN /\ pc' = "done"
                   /\ result' = Rows(slice.rows)
                   /\ calls' = log
              ELSE /\ pc' = IF akshareAvailable THEN "akshare" ELSE "stooq"
                   /\ result' = NoResult
                   /\ calls' = log
    /\ UNCHANGED <<signalVars, normVars, summaryVars>>

\* Lines 90-106 for one candidate, then lines 145-149 if it is accepted.
AkshareCall(resp) ==
    /\ pc = "akshare"
    /\ LET cleaned == CleanPriceDataframe(resp.frame, "GC=F")
           rows == FilterDateRange(cleaned.rows, req.start, req.end)
           taken == resp.kind = "rows" /\ cleaned.error = "none" /\ rows # <<>>
           log == Append(calls, Call("A", Candidates[cand]))
       IN  IF taken
           THEN /\ pc' = "done"
                /\ result' = Rows(rows)
                /\ cache' = WriteCache(req, cache, rows)
                /\ calls' = IF req.use_cache
                            THEN Append(log, Call("cache", "write")) ELSE log
                /\ got' = IF req.use_cache
                          THEN got \o <<"rows", "written">> ELSE Append(got, "rows")
                /\ accepted' = Accepted("A", resp.frame)
                /\ cand' = cand
           ELSE /\ pc' = IF cand < Len(Candidates) THEN "akshare" ELSE "stooq"
                /\ cand' = IF cand < Len(Candidates) THEN cand + 1 ELSE cand
                /\ calls' = log
                /\ got' = Append(got, "none")
                /\ UNCHANGED <<result, cache, accepted>>
    /\ UNCHANGED <<req, attempt, sleeps, last_exc, data>>
    /\ UNCHANGED <<signalVars, normVars, summaryVars>>

\* Lines 111-121, then lines 153-157 if accepted, else the entry of the loop.
StooqCall(resp) ==
    /\ pc = "stooq"
    /\ LET cleaned == CleanPriceDataframe(resp.frame, "XAUUSD")
           rows == FilterDateRange(cleaned.rows, req.start, req.end)
           taken == resp.kind = "rows" /\ cleaned.error = "none" /\ rows # <<>>
           log == Append(calls, Call("B", "xauusd"))
       IN  IF taken
           THEN /\ pc' = "done"
                /\ result' = Rows(rows)
                /\ cache' = WriteCache(req, cache, rows)
                /\ calls' = IF req.use_cache
                            THEN Append(log, Call("cache", "write")) ELSE log
                /\ got' = IF req.use_cache
                          THEN got \o <<"rows", "written">> ELSE Append(got, "rows")
                /\ accepted' = Accepted("B", resp.frame)
           ELSE /\ EnterYahoo(req, log)
                /\ got' = Append(got, "none")
                /\ UNCHANGED <<cache, accepted>>
    /\ UNCHANGED <<req, cand, attempt, sleeps, last_exc, data>>
    /\ UNCHANGED <<signalVars, normVars, summaryVars>>

\* The rename map of line 194.
YahooName(c) == IF c = "Adj Close" THEN "Close" ELSE c

\* Line 194: data.reset_index().rename(columns={"Adj Close": "Close"}).  A
\* download that has both columns comes out with two columns labelled Close.
YahooFrame(frame) ==
    [cols |-> BagOfAll(YahooName, frame.cols), rows |-> frame.rows]

\* Line 195, data[["Date", ..., "Volume"]]: every column that carries one of
\* the six labels.
SelectRequired(frame) ==
    [cols |-> [c \in BagToSet(frame.cols) \cap RequiredCols |-> frame.cols[c]],
     rows |-> frame.rows]

\* Lines 194-202: a non-empty download is reshaped, normalized, cached, returned.
YahooAccepted(r, frame, file, log, outs) ==
    LET renamed == YahooFrame(frame)
        cleaned == CleanPriceDataframe(SelectRequired(renamed), "GC=F")
    IN  IF ~(RequiredCols \subseteq BagToSet(renamed.cols))
        THEN [result |-> Raised("KeyError"), cache |-> file, calls |-> log,
              got |-> outs]
        ELSE IF cleaned.error # "none"
        THEN [result |-> Raised(cleaned.error), cache |-> file, calls |-> log,
              got |-> outs]
        ELSE [result |-> Rows(cleaned.rows),
              cache |-> WriteCache(r, file, cleaned.rows),
              calls |-> IF r.use_cache
                        THEN Append(log, Call("cache", "write")) ELSE log,
              got |-> IF r.use_cache THEN Append(outs, "written") ELSE outs]

\* backoff_seconds * attempt, the argument of time.sleep at line 178.
Backoff(r, n) == r.backoff_seconds * n

\* One pass of the loop of lines 161-178, and what follows the loop when it
\* ends.
YahooAttempt(resp) ==
    /\ pc = "yahoo"
    /\ LET frame == IF resp.kind = "rows" THEN resp.frame ELSE EmptyFrame
           exc == IF resp.kind = "raise" THEN "provider error" ELSE last_exc
           log == Append(calls, Call("C", "GC=F"))
           ok == YahooAccepted(req, frame, cache, log, Append(got, "rows"))
           ex == Exhausted(req, cache, log, Append(got, "none"))
       IN  /\ data' = frame
           /\ last_exc' = exc
           /\ IF resp.kind = "none"
              THEN \* data is None: data.empty at line 174 raises
                   /\ pc' = "done"
                   /\ result' = Raised("AttributeError")
                   /\ calls' = log
                   /\ got' = Append(got, "none")
                   /\ UNCHANGED <<attempt, sleeps, cache, accepted>>
              ELSE IF frame.rows # <<>>
              THEN /\ pc' = "done"
                   /\ result' = ok.result
                   /\ cache' = ok.cache
                   /\ calls' = ok.calls
                   /\ got' = ok.got
                   /\ accepted' = Accepted("C", frame)
                   /\ UNCHANGED <<attempt, sleeps>>
              ELSE IF attempt < req.retries
              THEN /\ sleeps' = Append(sleeps, Backoff(req, attempt))
                   /\ attempt' = attempt + 1
                   /\ calls' = log
                   /\ got' = Append(got, "none")
                   /\ UNCHANGED <<pc, result, cache, accepted>>
              ELSE /\ pc' = "done"
                   /\ result' = ex.result
                   /\ calls' = ex.calls
                   /\ got' = ex.got
                   /\ UNCHANGED <<attempt, sleeps, cache, accepted>>
    /\ UNCHANGED <<req, cand>>
    /\ UNCHANGED <<signalVars, normVars, summaryVars>>

\* The caller takes the result; the cache file stays as the call left it.
FetchReturn ==
    /\ pc = "done"
    /\ pc' = "idle"
    /\ req' = NoRequest
    /\ cand' = 1
    /\ attempt' = 1
    /\ calls' = <<>>
    /\ sleeps' = <<>>
    /\ last_exc' = "none"
    /\ data' = EmptyFrame
    /\ result' = NoResult
    /\ got' = <<>>
    /\ accepted' = NoAccepted
    /\ UNCHANGED cache
    /\ UNCHANGED <<signalVars, normVars, summaryVars>>

\* DATA_DIR / filename: an absolute file name replaces DATA_DIR, and pathlib
\* drops the "." components.
JoinDataDir(filename) ==
    LET joined == IF filename # <<>> /\ Head(filename) = "/"
                  THEN Tail(filename) ELSE DataDir \o filename
    IN  SelectSeq(joined, LAMBDA c : c # ".")

NoFile == <<>>
Parent(dir) == IF dir = <<>> THEN <<>> ELSE SubSeq(dir, 1, Len(dir) - 1)

\* The file that open(path, "w") writes, the path followed from directory
\* dir; NoFile when the path goes through a directory that does not exist or
\* names a directory (open raises).
RECURSIVE Resolve(_, _)
Resolve(path, dir) ==
    IF path = <<>> THEN NoFile
    ELSE IF Head(path) = ".." THEN Resolve(Tail(path), Parent(dir))
    ELSE LET entry == dir \o <<Head(path)>>
         IN  IF Tail(path) = <<>>
             THEN IF entry \in Directories THEN NoFile ELSE entry
             ELSE IF entry \in Directories THEN Resolve(Tail(path), entry)
             ELSE NoFile

\* DATA_DIR / filename is the gold cache file.
IsGoldCache(filename) == Resolve(JoinDataDir(filename), <<>>) = GoldCache

\* save_data(df, filename) between two fetches: df.to_csv(DATA_DIR / filename)
\* replaces the gold cache file when the path leads to it; a path through a
\* directory that does not exist raises and writes nothing.
SaveData(df, filename) ==
    /\ pc = "idle"
    /\ cache' = IF IsGoldCache(filename) THEN ToCsv(df) ELSE cache
    /\ UNCHANGED <<req, pc, cand, attempt, calls, sleeps, last_exc, data, result,
                   got, accepted>>
    /\ UNCHANGED <<signalVars, normVars, summaryVars>>

NextFetch ==
    \/ \E start \in Dates, end \in {NoEnd} \cup Dates,
          retries \in 0..MaxRetries, use_cache \in BOOLEAN,
          akshareAvailable \in BOOLEAN :
            /\ end = NoEnd \/ end >= start
            /\ FetchStart(start, end, retries, use_cache, akshareAvailable)
    \/ \E resp \in Responses : AkshareCall(resp)
    \/ \E resp \in Responses : StooqCall(resp)
    \/ \E resp \in Responses : YahooAttempt(resp)
    \/ \E df \in SavedFrames, filename \in FileNames : SaveData(df, filename)
    \/ FetchReturn

\* The signal engine on its own: no fetch is in progress.
Spec == InitSignals /\ [][NextSignals]_vars

\* The acquisition layer on its own: generate_signals is not called.
SpecFetch == InitFetch /\ [][NextFetch]_vars

(***************************************************************************)
(* _clean_price_dataframe on its own: a raw table is normalized, and the   *)
(* series it returns is normalized once more with the same symbol.         *)
(***************************************************************************)
\* The row counts of the raw tables handed to the normalizer.
NormRowCounts == 0..3
NormRawRows == [Date : Dates, Close : {"100", "101", "nan"}]
NormRawRowSeqs == UNION {[1..n -> NormRawRows] : n \in NormRowCounts}

\* The headers of the raw tables: canonical, lower-case English, Chinese (with
\* the settlement price), upper-case English (not in the rename map), the
\* columns of a normalized series, the canonical headers with a second close
\* column, and the canonical headers less one column.
NormColumnSets ==
    {RequiredCols,
     {"date", "open", "high", "low", "close", "volume"},
     {"riqi", "kaipan", "zuigao", "zuidi", "jiesuanjia", "chengjiaoliang"},
     {"DATE", "OPEN", "HIGH", "LOW", "CLOSE", "VOLUME"},
     RequiredCols \cup {"Symbol"},
     RequiredCols \cup {"close"}}
        \cup {RequiredCols \ {c} : c \in RequiredCols}
\* Long raw tables, in date order, whose rows t and t + 1 share a date and
\* differ in price: of SmallQuicksort + 1 rows (sorted by insertion) and of
\* one row more (partitioned).
LongRowCounts == {SmallQuicksort + 1, SmallQuicksort + 2}
LongTables ==
    UNION {{[i \in 1..n |-> [Date |-> IF i <= t THEN i ELSE i - 1,
                             Close |-> IF i = t + 1 THEN "101" ELSE "100"]] :
               t \in 1..(n - 1)} : n \in LongRowCounts}
Symbols == {"GC=F", "XAUUSD"}

NotCleaned == [called |-> FALSE, error |-> "none", rows |-> <<>>]
Cleaned(res) == [called |-> TRUE, error |-> res.error, rows |-> res.rows]

\* The DataFrame a normalized series is: the six price columns and Symbol.
SeriesFrame(rows) ==
    [cols |-> SetToBag(RequiredCols \cup {"Symbol"}), rows |-> rows]

InitNormalize ==
    /\ raw \in {[cols |-> SetToBag(c), rows |-> r] :
                  c \in NormColumnSets, r \in NormRawRowSeqs \cup LongTables}
    /\ sym \in Symbols
    /\ norm = NotCleaned
    /\ renorm = NotCleaned
    /\ returns = <<>>
    /\ summary = [called |-> FALSE]
    /\ gold = <<>> /\ equity = <<>> /\ cfg = <<>>
    /\ out = [called |-> FALSE, steps |-> <<>>, error |-> "none", rows |-> <<>>]
    /\ prevOut = out
    /\ changedAt = 0
    /\ cache = [exists |-> FALSE, rows |-> <<>>]
    /\ req = [start |-> 1, end |-> 0, retries |-> 0, backoff_seconds |-> 5,
              use_cache |-> FALSE]
    /\ pc = "idle"
    /\ cand = 1
    /\ attempt = 1
    /\ calls = <<>>
    /\ sleeps = <<>>
    /\ last_exc = "none"
    /\ data = [cols |-> EmptyBag, rows |-> <<>>]
    /\ result = [kind |-> "none", error |-> "none", rows |-> <<>>]
    /\ got = <<>>
    /\ accepted = [src |-> "none", frame |-> [cols |-> EmptyBag, rows |-> <<>>]]

\* _clean_price_dataframe(raw, symbol)
Clean ==
    /\ ~norm.called
    /\ norm' = Cleaned(CleanPriceDataframe(raw, sym))
    /\ UNCHANGED <<raw, sym, renorm>>
    /\ UNCHANGED <<signalVars, fetchVars, summaryVars>>

\* _clean_price_dataframe(series, symbol) on the series the first call returned
CleanAgain ==
    /\ norm.called /\ norm.error = "none"
    /\ ~renorm.called
    /\ renorm' = Cleaned(CleanPriceDataframe(SeriesFrame(norm.rows), sym))
    /\ UNCHANGED <<raw, sym, norm>>
    /\ UNCHANGED <<signalVars, fetchVars, summaryVars>>

NextNormalize == Clean \/ CleanAgain

\* The normalizer on its own.
SpecNormalize == InitNormalize /\ [][NextNormalize]_vars

(***************************************************************************)
(* performance_summary on its own.  A daily return is a rational; the      *)
(* results that are rational (the final curve value, the drawdown) are     *)
(* computed exactly.  A power or a square root is computed where it is     *)
(* rational (1 ** x = 1, sqrt(0) = 0) and is otherwise kept as the record  *)
(* of its operands.                                                        *)
(***************************************************************************)
One == Rat(1, 1)
Abs(x) == IF x < 0 THEN 0 - x ELSE x

RECURSIVE Gcd(_, _)
Gcd(a, b) == IF b = 0 THEN a ELSE Gcd(b, a % b)

\* The rational n/d in lowest terms with a positive denominator.
Reduce(n, d) ==
    LET g == Gcd(Abs(n), Abs(d))
        s == IF d < 0 THEN 0 - 1 ELSE 1
    IN  IF d = 0 THEN NaN ELSE Rat(s * (n \div g), s * (d \div g))

RatAdd(a, b) == Reduce(a.n * b.d + b.n * a.d, a.d * b.d)
RatSub(a, b) == Reduce(a.n * b.d - b.n * a.d, a.d * b.d)
RatMul(a, b) == Reduce(a.n * b.n, a.d * b.d)
RatDiv(a, b) == Reduce(a.n * b.d, a.d * b.n)

RECURSIVE RatSum(_)
RatSum(xs) == IF xs = <<>> THEN Zero ELSE RatAdd(Head(xs), RatSum(Tail(xs)))

\* A variant of the curve that adds the growth factors instead of
\* multiplying them.
RECURSIVE CumCurveSum(_)
CumCurveSum(rets) ==
    IF rets = <<>> THEN <<>>
    ELSE LET front == CumCurveSum(SubSeq(rets, 1, Len(rets) - 1))
             growth == RatAdd(One, rets[Len(rets)].ret)
         IN  Append(front, IF front = <<>> THEN growth
                           ELSE RatAdd(front[Len(front)], growth))

\* (1 + daily_ret).cumprod()
RECURSIVE CumCurve(_)
CumCurve(rets) ==
    IF rets = <<>> THEN <<>>
    ELSE LET front == CumCurve(SubSeq(rets, 1, Len(rets) - 1))
             growth == RatAdd(One, rets[Len(rets)].ret)
         IN  Append(front, IF front = <<>> THEN growth
                           ELSE RatMul(front[Len(front)], growth))

\* cum_curve.cummax()
RECURSIVE CumMax(_)
CumMax(curve) ==
    IF curve = <<>> THEN <<>>
    ELSE LET front == CumMax(SubSeq(curve, 1, Len(curve) - 1))
             x == curve[Len(curve)]
         IN  Append(front, IF front = <<>> \/ RatGT(x, front[Len(front)])
                           THEN x ELSE front[Len(front)])

\* Series.min() of a series without missing values
RatMin(xs) ==
    xs[CHOOSE i \in 1..Len(xs) : \A j \in 1..Len(xs) : ~RatGT(xs[i], xs[j])]

\* Series.mean()
Mean(rets) ==
    RatDiv(RatSum([i \in 1..Len(rets) |-> rets[i].ret]), Rat(Len(rets), 1))

\* The square of Series.std() (ddof = 1): missing for a single observation.
Variance(rets) ==
    LET m == Mean(rets)
        sq == [i \in 1..Len(rets) |->
                 RatMul(RatSub(rets[i].ret, m), RatSub(rets[i].ret, m))]
    IN  IF Len(rets) < 2 THEN NaN ELSE RatDiv(RatSum(sq), Rat(Len(rets) - 1, 1))

\* base ** (1 / years) - 1 with years = days / 365.25
AnnualGrowth(base, days) ==
    IF base = One THEN Zero ELSE [base |-> base, days |-> days]

\* daily_ret.std() * np.sqrt(252)
AnnualVol(var) ==
    IF IsNaN(var) THEN NaN
    ELSE IF var = Zero THEN Zero
    ELSE [sqrt_of |-> RatMul(var, Rat(252, 1))]

\* (daily_ret.mean() / daily_ret.std()) * np.sqrt(252), guarded by
\* daily_ret.std() != 0, which a missing std passes.
Sharpe(mean, var) ==
    IF IsNaN(var) THEN NaN
    ELSE IF var = Zero THEN NaN
    ELSE [mean |-> mean, sqrt_of |-> RatDiv(var, Rat(252, 1))]

\* performance_summary(returns)
PerformanceSummary(rets) ==
    LET cum_curve == CumCurve(rets)
        last == cum_curve[Len(cum_curve)]
        total_days == rets[Len(rets)].Date - rets[1].Date
        cummax == CumMax(cum_curve)
        drawdown == [i \in 1..Len(rets) |->
                       RatSub(RatDiv(cum_curve[i], cummax[i]), One)]
    IN  IF rets = <<>> THEN [called |-> TRUE, empty |-> TRUE]
        ELSE [called |-> TRUE, empty |-> FALSE,
              cagr |-> IF total_days > 0 THEN AnnualGrowth(last, total_days)
                       ELSE NaN,
              vol |-> AnnualVol(Variance(rets)),
              sharpe |-> Sharpe(Mean(rets), Variance(rets)),
              max_drawdown |-> RatMin(drawdown),
              last_value |-> last]

\* The daily returns of the series handed to performance_summary.
ReturnValues == {Rat(0 - 1, 2), Zero, Rat(1, 2)}

\* A return series over any set of trading days, the empty one included.
InitSummary ==
    /\ \E D \in SUBSET TradingDays :
         \E rs \in [1..Cardinality(D) -> ReturnValues] :
            returns = [i \in 1..Cardinality(D) |->
                         [Date |-> SortedSeq(D)[i], ret |-> rs[i]]]
    /\ summary = [called |-> FALSE]
    /\ raw = [cols |-> EmptyBag, rows |-> <<>>]
    /\ sym = ""
    /\ norm = [called |-> FALSE, error |-> "none", rows |-> <<>>]
    /\ renorm = [called |-> FALSE, error |-> "none", rows |-> <<>>]
    /\ gold = <<>> /\ equity = <<>> /\ cfg = <<>>
    /\ out = [called |-> FALSE, steps |-> <<>>, error |-> "none", rows |-> <<>>]
    /\ prevOut = out
    /\ changedAt = 0
    /\ cache = [exists |-> FALSE, rows |-> <<>>]
    /\ req = [start |-> 1, end |-> 0, retries |-> 0, backoff_seconds |-> 5,
              use_cache |-> FALSE]
    /\ pc = "idle"
    /\ cand = 1
    /\ attempt = 1
    /\ calls = <<>>
    /\ sleeps = <<>>
    /\ last_exc = "none"
    /\ data = [cols |-> EmptyBag, rows |-> <<>>]
    /\ result = [kind |-> "none", error |-> "none", rows |-> <<>>]
    /\ got = <<>>
    /\ accepted = [src |-> "none", frame |-> [cols |-> EmptyBag, rows |-> <<>>]]

\* performance_summary(returns)
Summarize ==
    /\ ~summary.called
    /\ summary' = PerformanceSummary(returns)
    /\ UNCHANGED returns
    /\ UNCHANGED <<signalVars, fetchVars, normVars>>

NextSummary == Summarize

\* The performance analyzer on its own.
SpecSummary == InitSummary /\ [][NextSummary]_vars

(***************************************************************************)
(* Properties of the signal engine                                         *)
(***************************************************************************)
Returned == out.called /\ out.error = "none"
ValidConfig(c) == c.lookback_days >= 1 /\ c.rebalance \in SupportedModes
Cash == cfg[1].cash_symbol
Lookback == cfg[1].lookback_days

\* C1. No-lookahead: with a valid configuration (lookback_days >= 1), when the
\* close of one asset on the day of row T is changed and the signals are
\* generated again, the executed position of every row <= T is the same as in
\* the output generated before the change.
NoLookahead ==
    (changedAt > 0 /\ ValidConfig(cfg[1]) /\ Returned) =>
        \A i \in 1..changedAt :
            out.rows[i].position = prevOut.rows[i].position

\* C1 witness: a changed close on day T that does change the executed position
\* of a later day.
NoLookaheadWitness ==
    /\ changedAt > 0 /\ ValidConfig(cfg[1]) /\ Returned
    /\ \E i \in (changedAt + 1)..Len(out.rows) :
          out.rows[i].position # prevOut.rows[i].position

\* C2. Execution lag: the executed position of the first row is cash_symbol and
\* the executed position of every later row is the raw signal of the row
\* before it.
ExecutionLag ==
    Returned =>
        \A i \in 1..Len(out.rows) :
            out.rows[i].position =
                IF i = 1 THEN Cash ELSE out.rows[i - 1].signal

\* C2 witness: a day that holds the non-cash signal of the day before while its
\* own signal is already a different one.
ExecutionLagWitness ==
    /\ Returned
    /\ \E i \in 2..Len(out.rows) :
          /\ out.rows[i].position = out.rows[i - 1].signal
          /\ out.rows[i].position # Cash
          /\ out.rows[i].signal # out.rows[i].position
    /\ out.rows[1].signal # Cash

PrevPosition(rows, i) == IF i = 1 THEN Cash ELSE rows[i - 1].position
Switches(rows) ==
    Cardinality({i \in 1..Len(rows) : rows[i].position # PrevPosition(rows, i)})

RECURSIVE TotalFee(_, _)
TotalFee(rows, n) ==
    IF n = 0 THEN 0 ELSE TotalFee(rows, n - 1) + rows[n].portfolio_ret.fee

\* C3. Fees (in units of 1/10000): the fee of a day is fee_bps if its executed
\* position differs from the previous day's (cash_symbol before the first day)
\* and 0 otherwise; the total is (number of position changes) * fee_bps, a
\* direct GOLD-to-EQUITY switch is charged fee_bps once, and a run whose
\* position never changes is charged nothing.
FeePerSwitch ==
    Returned =>
        /\ \A i \in 1..Len(out.rows) :
              out.rows[i].portfolio_ret.fee =
                  IF out.rows[i].position # PrevPosition(out.rows, i)
                  THEN cfg[1].fee_bps ELSE 0
        /\ TotalFee(out.rows, Len(out.rows)) = Switches(out.rows) * cfg[1].fee_bps
        /\ \A i \in 2..Len(out.rows) :
              (out.rows[i - 1].position = "GOLD" /\ out.rows[i].position = "EQUITY")
                  => out.rows[i].portfolio_ret.fee = cfg[1].fee_bps
        /\ (Switches(out.rows) = 0) => TotalFee(out.rows, Len(out.rows)) = 0

\* C3 witness: a run that enters GOLD and then switches directly to EQUITY.
FeePerSwitchWitness ==
    /\ Returned
    /\ \E i \in 2..Len(out.rows) :
          /\ out.rows[i - 1].position = "GOLD"
          /\ out.rows[i].position = "EQUITY"
          /\ out.rows[i].portfolio_ret.fee = cfg[1].fee_bps
    /\ TotalFee(out.rows, Len(out.rows)) = 2 * cfg[1].fee_bps

\* The days on which the engine decides: every day (daily), the Fridays
\* (weekly), the calendar month ends (monthly), once lookback_days earlier rows
\* exist.
IsMonthEnd(d) == \E k \in 1..Len(MonthEnds) : MonthEnds[k] = d
DecidesOn(i) ==
    /\ i > Lookback
    /\ \/ cfg[1].rebalance = "daily"
       \/ cfg[1].rebalance = "weekly" /\ IsFriday(gold[i].Date)
       \/ cfg[1].rebalance = "monthly" /\ IsMonthEnd(gold[i].Date)

\* Momentum comparisons on the closes, by cross multiplication.
Up(series, i) == series[i].Close > series[i - Lookback].Close
GoldBeats(i) ==
    gold[i].Close * equity[i - Lookback].Close
        > equity[i].Close * gold[i - Lookback].Close
EquityBeats(i) ==
    equity[i].Close * gold[i - Lookback].Close
        > gold[i].Close * equity[i - Lookback].Close

\* C4. Asset selection: with a valid configuration, on every day the engine
\* decides on, the raw signal is GOLD when GOLD's lookback momentum is > 0 and
\* strictly greater than EQUITY's, EQUITY when EQUITY's is > 0 and strictly
\* greater than GOLD's, and cash_symbol when neither momentum is > 0.
AssetSelection ==
    (Returned /\ ValidConfig(cfg[1])) =>
        \A i \in 1..Len(out.rows) :
            DecidesOn(i) =>
                /\ (GoldBeats(i) /\ Up(gold, i)) => out.rows[i].signal = "GOLD"
                /\ (EquityBeats(i) /\ Up(equity, i)) => out.rows[i].signal = "EQUITY"
                /\ (~Up(gold, i) /\ ~Up(equity, i)) => out.rows[i].signal = Cash

\* C4 witness: a decision day on which both momenta are positive and EQUITY's
\* is the greater, and a decision day on which neither is positive.
AssetSelectionWitness ==
    /\ Returned /\ ValidConfig(cfg[1])
    /\ \E i \in 1..Len(out.rows) :
          /\ DecidesOn(i) /\ Up(gold, i) /\ Up(equity, i) /\ EquityBeats(i)
          /\ out.rows[i].signal = "EQUITY"
    /\ \E i \in 1..Len(out.rows) :
          /\ DecidesOn(i) /\ ~Up(gold, i) /\ ~Up(equity, i)
          /\ out.rows[i].signal = Cash

\* The pick the selection rule makes from the closes of row i.
RulePick(i) ==
    IF ~Up(gold, i) /\ ~Up(equity, i) THEN Cash
    ELSE IF EquityBeats(i) THEN "EQUITY" ELSE "GOLD"

\* Row i is the last row of the table on or before the Friday of its week
\* (weekly), or the last row of its calendar month (monthly), and the table
\* goes on into a later week (month).
LastOfPeriod(i) ==
    /\ i < Len(gold)
    /\ \/ /\ cfg[1].rebalance = "weekly"
          /\ \A j \in 1..Len(gold) :
                WeekLabel(gold[j].Date) = WeekLabel(gold[i].Date) => j <= i
       \/ /\ cfg[1].rebalance = "monthly"
          /\ \A j \in 1..Len(gold) :
                MonthLabel(gold[j].Date) = MonthLabel(gold[i].Date) => j <= i

\* C5. Rebalance schedule: under weekly (monthly) rebalancing, the last trading
\* day of each week on or before its Friday (of each calendar month) is a
\* decision date: where momentum is defined there, the raw signal of that day
\* is the pick made from that day's momentum, also when the Friday (the
\* month-end day) is not a trading day.  Stated for the weeks (months) the
\* table has gone past.
RebalanceSchedule ==
    (Returned /\ ValidConfig(cfg[1])) =>
        \A i \in 1..Len(out.rows) :
            (LastOfPeriod(i) /\ i > Lookback) => out.rows[i].signal = RulePick(i)

\* C6. Output shape: the returned frame has exactly one row for each trading
\* day of the aligned table, in order, and every executed position is GOLD,
\* EQUITY or cash_symbol.
OutputShape ==
    Returned =>
        /\ Len(out.rows) = Len(gold)
        /\ \A i \in 1..Len(out.rows) :
              /\ out.rows[i].Date = gold[i].Date
              /\ out.rows[i].position \in {"GOLD", "EQUITY", Cash}

\* C6 witness: a four-day table whose output holds all three positions.
OutputShapeWitness ==
    /\ Returned /\ Len(gold) = 4 /\ Len(out.rows) = 4
    /\ {out.rows[i].position : i \in 1..4} = {"GOLD", "EQUITY", Cash}

\* C10. Configuration errors fail fast: no RotationConfig with an unsupported
\* rebalance mode or a non-positive lookback_days is ever constructed, so no
\* step of generate_signals runs with one.
ConfigFailFast ==
    /\ cfg # NoConfig => ValidConfig(cfg[1])
    /\ (out.called /\ out.steps # <<>>) => ValidConfig(cfg[1])

\* The decision days before row i.
DecidedBefore(i) == {j \in 1..(i - 1) : DecidesOn(j)}

\* C15. Signal propagation: with a valid configuration, on every trading day
\* that is not a decision day the raw signal is the raw signal of the latest
\* earlier decision day, and the cash symbol when no decision day with defined
\* momentum came before it.
SignalPropagation ==
    (Returned /\ ValidConfig(cfg[1])) =>
        \A i \in 1..Len(out.rows) :
            ~DecidesOn(i) =>
                out.rows[i].signal =
                    IF DecidedBefore(i) = {} THEN Cash
                    ELSE out.rows[CHOOSE j \in DecidedBefore(i) :
                            \A k \in DecidedBefore(i) : k <= j].signal

\* C15 witness: weekly rebalancing over Wednesday, Thursday, Friday, Monday; the
\* days before the Friday decision are in cash and the Monday carries the
\* Friday's non-cash signal.
SignalPropagationWitness ==
    /\ Returned /\ ValidConfig(cfg[1]) /\ cfg[1].rebalance = "weekly"
    /\ Len(out.rows) = 4
    /\ DecidesOn(3) /\ ~DecidesOn(4)
    /\ out.rows[1].signal = Cash /\ out.rows[2].signal = Cash
    /\ out.rows[3].signal # Cash
    /\ out.rows[4].signal = out.rows[3].signal

(***************************************************************************)
(* Properties of the normalizer                                            *)
(***************************************************************************)
CleanedOk == norm.called /\ norm.error = "none"

\* C11. Idempotent normalization: whenever a raw table normalizes
\* successfully, normalizing the result again with the same symbol succeeds
\* and returns the same rows in the same order.
NormalizeIdempotent ==
    renorm.called =>
        /\ renorm.error = "none"
        /\ renorm.rows = norm.rows

\* C12. Ordering and uniqueness: every series the normalizer returns is sorted
\* ascending by date and has at most one row per date, and that row is the
\* last raw row of that date that has prices.
SortedUniqueLastWins ==
    CleanedOk =>
        /\ \A i \in 1..(Len(norm.rows) - 1) :
              norm.rows[i].Date < norm.rows[i + 1].Date
        /\ \A i \in 1..Len(norm.rows) :
              \E j \in 1..Len(raw.rows) :
                 /\ raw.rows[j].Date = norm.rows[i].Date
                 /\ raw.rows[j].Close = norm.rows[i].Close
                 /\ \A k \in (j + 1)..Len(raw.rows) :
                       raw.rows[k].Date = raw.rows[j].Date =>
                           raw.rows[k].Close = "nan"

PriceCols == {"Date", "Open", "High", "Low", "Close"}

\* C13. Error taxonomy: normalizing a raw table with zero rows raises the
\* empty-data error (ValueError "No data"), and normalizing a raw table with
\* rows in which one of Date, Open, High, Low, Close is not among the renamed
\* headers raises the schema error (ValueError "Missing columns"); no series
\* is returned in either case.
NormalizerErrors ==
    norm.called =>
        /\ raw.rows = <<>> =>
              norm.error = "ValueError: No data" /\ norm.rows = <<>>
        /\ (raw.rows # <<>> /\ ~(PriceCols \subseteq BagToSet(Rename(raw.cols)))) =>
              norm.error = "ValueError: Missing columns" /\ norm.rows = <<>>

(***************************************************************************)
(* Properties of the performance analyzer                                  *)
(***************************************************************************)
AllZero(rets) == rets # <<>> /\ \A i \in 1..Len(rets) : rets[i].ret = Zero

\* C14 as stated. Zero-return summary: for every non-empty return series of
\* all zeros the summary has CAGR 0, volatility 0, Sharpe not-a-number, max
\* drawdown 0 and terminal value 1.
ZeroReturnSummary ==
    (summary.called /\ AllZero(returns)) =>
        /\ ~summary.empty
        /\ summary.cagr = Zero
        /\ summary.vol = Zero
        /\ IsNaN(summary.sharpe)
        /\ summary.max_drawdown = Zero
        /\ summary.last_value = One

\* C14 amended. For every return series of all zeros with two or more
\* observations the summary has CAGR 0, volatility 0, Sharpe not-a-number, max
\* drawdown 0 and terminal value 1; for a single zero observation CAGR and
\* volatility are not-a-number as well, the drawdown is 0 and the terminal
\* value 1.
ZeroReturnSummaryTwoDays ==
    (summary.called /\ AllZero(returns)) =>
        /\ ~summary.empty
        /\ IsNaN(summary.sharpe)
        /\ summary.max_drawdown = Zero
        /\ summary.last_value = One
        /\ Len(returns) >= 2 => summary.cagr = Zero /\ summary.vol = Zero
        /\ Len(returns) = 1 => IsNaN(summary.cagr) /\ IsNaN(summary.vol)

\* C14 witness: the summary of four days of zero returns.
ZeroReturnSummaryWitness ==
    /\ summary.called /\ AllZero(returns) /\ Len(returns) = 4
    /\ summary.cagr = Zero /\ summary.vol = Zero

(***************************************************************************)
(* Properties of the acquisition layer                                     *)
(***************************************************************************)
InRange(d, r) == d >= r.start /\ (r.end = NoEnd \/ d <= r.end)
RowsInRange(rows, r) == SelectSeq(rows, LAMBDA x : InRange(x.Date, r))
ProviderCalls(log) == SelectSeq(log, LAMBDA c : c.src \in {"A", "B", "C"})
CacheWrites(log) == SelectSeq(log, LAMBDA c : c.src = "cache" /\ c.arg = "write")
Retagged(rows, symbol) ==
    [i \in 1..Len(rows) |->
        [Date |-> rows[i].Date, Close |-> rows[i].Close, Symbol |-> symbol]]

\* The rows inside the requested range that have prices.
PricedInRange(rows, r) ==
    SelectSeq(rows, LAMBDA x : InRange(x.Date, r) /\ x.Close # "nan")

\* A call starts with caching enabled on a cache file that holds a row inside
\* the requested range.
StartsOnCoveringCache ==
    /\ pc = "idle" /\ pc' # "idle"
    /\ req'.use_cache /\ cache.exists
    /\ RowsInRange(cache.rows, req') # <<>>

\* C7 as stated. Cache-hit short-circuit: a call that starts with caching
\* enabled on a cache holding a row in range ends at once, with no provider
\* call and no cache write, returning exactly the cached rows in range.
CacheHitExact ==
    [][StartsOnCoveringCache =>
        /\ pc' = "done"
        /\ ProviderCalls(calls') = <<>> /\ CacheWrites(calls') = <<>>
        /\ cache' = cache
        /\ result' = Rows(RowsInRange(cache.rows, req'))]_vars

\* C7 amended. When the cache holds a row in range that has prices, the call
\* ends at once, with no provider call and no cache write, and the rows
\* returned are the cached rows in range that have prices, in date order, with
\* their Symbol set to GC=F whatever Symbol the file holds.
CacheHitRetagged ==
    [][(StartsOnCoveringCache /\ PricedInRange(cache.rows, req') # <<>>) =>
        /\ pc' = "done"
        /\ ProviderCalls(calls') = <<>> /\ CacheWrites(calls') = <<>>
        /\ cache' = cache
        /\ result' =
              Rows(Retagged(SortByDate(PricedInRange(cache.rows, req')), "GC=F"))]_vars

\* C7 witness: a call served from a cache that provider B filled (Symbol
\* XAUUSD in the file) and that also holds a row outside the range.
CacheHitWitness ==
    /\ pc = "done" /\ req.use_cache /\ cache.exists
    /\ calls = <<Call("cache", "read")>>
    /\ result.kind = "rows"
    /\ Len(result.rows) < Len(cache.rows)
    /\ \E i \in 1..Len(cache.rows) : cache.rows[i].Symbol = "XAUUSD"

YahooCalls(log) == Len(SelectSeq(log, LAMBDA c : c.src = "C"))

\* C8. Acquisition fallback: when a call with caching enabled got no cache
\* hit and took nothing from provider A or B, provider C failed on its first
\* attempt and on a later one returned well-formed rows, some of them in the
\* requested range, the call returns those rows normalized as GC=F and
\* restricted to the requested range, and the cache file then holds that
\* result.
FallbackToProviderC ==
    (/\ pc = "done" /\ req.use_cache
     /\ accepted.src = "C" /\ YahooCalls(calls) >= 2
     /\ data.rows # <<>> /\ RequiredCols \subseteq BagToSet(YahooFrame(data).cols)
     /\ RowsInRange(CleanPriceDataframe(YahooFrame(data), "GC=F").rows, req) # <<>>) =>
        LET expected ==
              RowsInRange(CleanPriceDataframe(YahooFrame(data), "GC=F").rows, req)
        IN  /\ result = Rows(expected)
            /\ cache = [exists |-> TRUE, rows |-> expected]

\* The cache, as the call found it, yields a priced row in the requested
\* range.
CacheYieldsRows ==
    /\ req.use_cache /\ cache.exists
    /\ PricedInRange(cache.rows, req) # <<>>

\* C9. Exhaustion error: a call in which the cache yields no rows in range and
\* no provider attempt returned rows the call took ends with the
\* data-unavailable error
\* (the RuntimeError of line 192) and with no other exception, for every
\* retries >= 0 and either value of use_cache.
ExhaustionError ==
    (pc = "done" /\ accepted.src = "none" /\ ~CacheYieldsRows) =>
        result = Raised("RuntimeError")

\* The counts of a call: provider C is called at most retries times, the
\* waits so far are backoff_seconds * 1, backoff_seconds * 2, ..., none after
\* the last attempt, and once an attempt has returned rows the call is over.
RetryCounts ==
    /\ YahooCalls(calls) <= req.retries
    /\ sleeps = [n \in 1..Len(sleeps) |-> req.backoff_seconds * n]
    /\ pc = "yahoo" =>
          /\ Len(sleeps) = YahooCalls(calls)
          /\ attempt = YahooCalls(calls) + 1
          /\ attempt <= req.retries
    /\ (pc = "done" /\ YahooCalls(calls) >= 1) =>
          Len(sleeps) = YahooCalls(calls) - 1
    /\ pc \in {"idle", "akshare", "stooq"} => sleeps = <<>> /\ YahooCalls(calls) = 0
    /\ data.rows # <<>> => pc = "done"

\* Attempt n of provider C, with n < retries, has just ended without rows.
AttemptFailedEarly ==
    /\ pc = "yahoo" /\ YahooCalls(calls') = YahooCalls(calls) + 1
    /\ data'.rows = <<>>
    /\ attempt < req.retries

\* C16. Retry and backoff schedule: in one call provider C is called at most
\* retries times; after the n-th attempt that failed or gave nothing, with
\* n < retries, the call waits exactly backoff_seconds * n and goes on to
\* attempt n + 1; there is no wait after the last attempt; and once an attempt
\* has returned rows the call is over.
RetrySchedule ==
    /\ []RetryCounts
    /\ [][AttemptFailedEarly =>
            /\ pc' = "yahoo"
            /\ attempt' = attempt + 1
            /\ sleeps' = Append(sleeps, req.backoff_seconds * attempt)]_vars

\* The place of entry i of the call log in the fallback chain: the cache read
\* that opens the call, the three candidates of provider A, provider B,
\* provider C, the last-resort read of the cache, the cache write.
Rank(log, i) ==
    CASE log[i] = Call("cache", "read") -> IF i = 1 THEN 0 ELSE 6
      [] log[i] = Call("A", "GC/COMEX") -> 1
      [] log[i] = Call("A", "GOLD/COMEX") -> 2
      [] log[i] = Call("A", "GC/NYMEX") -> 3
      [] log[i].src = "B" -> 4
      [] log[i].src = "C" -> 5
      [] OTHER -> 7
IsContact(c) == c # Call("cache", "write")

\* C17. Strict fallback order: the sources of a call are consulted in the order
\* cache, provider A with (GC, COMEX), (GOLD, COMEX), (GC, NYMEX), provider B,
\* provider C (and the cache once more when provider C is exhausted); no
\* candidate or provider is skipped or repeated except provider C's retries
\* (provider A as a whole is skipped when akshare lacks the function); a
\* source is contacted only when every source contacted before it produced
\* nothing, so none is contacted once a result is accepted.
StrictFallbackOrder ==
    /\ Len(got) = Len(calls)
    /\ \A i, j \in 1..Len(calls) :
          i < j =>
             /\ Rank(calls, i) <= Rank(calls, j)
             /\ Rank(calls, i) = Rank(calls, j) => calls[i].src = "C"
             /\ IsContact(calls[j]) => got[i] = "none"
    /\ \A j \in 1..Len(calls) :
          /\ Rank(calls, j) \in {2, 3} =>
                j > 1 /\ Rank(calls, j - 1) = Rank(calls, j) - 1
          /\ Rank(calls, j) = 4 =>
                \/ j > 1 /\ Rank(calls, j - 1) = 3
                \/ \A i \in 1..Len(calls) : calls[i].src # "A"
          /\ Rank(calls, j) = 5 => j > 1 /\ Rank(calls, j - 1) \in {4, 5}
          /\ Rank(calls, j) = 6 =>
                Rank(calls, j - 1) = 5 /\ YahooCalls(calls) = req.retries
    /\ (pc # "idle" /\ req.use_cache /\ cache.exists /\ CacheWrites(calls) = <<>>) =>
          calls # <<>> /\ calls[1] = Call("cache", "read")
    /\ pc \in {"akshare", "stooq", "yahoo"} => result = NoResult

\* C17 witness: a call that went through the whole chain: the cache held no row
\* in range, the three candidates of provider A and provider B produced
\* nothing, provider C failed once and then returned the rows.
StrictFallbackOrderWitness ==
    /\ pc = "done" /\ result.kind = "rows"
    /\ calls = <<Call("cache", "read"), Call("A", "GC/COMEX"),
                 Call("A", "GOLD/COMEX"), Call("A", "GC/NYMEX"),
                 Call("B", "xauusd"), Call("C", "GC=F"), Call("C", "GC=F"),
                 Call("cache", "write")>>
    /\ got = <<"none", "none", "none", "none", "none", "none", "rows", "written">>

\* The symbol a provider's frame is normalized with.
SymbolOf(src) == IF src = "B" THEN "XAUUSD" ELSE "GC=F"

\* The whole normalized series of the frame a provider returned.
ProviderSeries(src, frame) ==
    CleanPriceDataframe(IF src = "C" THEN YahooFrame(frame) ELSE frame,
                        SymbolOf(src)).rows

\* C18. Cache refresh content: when a call with caching enabled returns rows
\* taken from provider A, B or C, the cache file then holds the whole
\* normalized series of the frame that provider returned, the rows outside
\* the requested range included, in place of what it held.
FullSeriesCached ==
    (/\ pc = "done" /\ req.use_cache /\ result.kind = "rows"
     /\ accepted.src \in {"A", "B", "C"}) =>
        cache = ToCsv(ProviderSeries(accepted.src, accepted.frame))

\* C19. Last-resort stale cache: when a call with caching enabled and
\* retries >= 1 took no provider's frame, provider C having used up its
\* attempts, and the cache file exists, the call returns the cached rows that
\* lie in the requested range (as GC=F) and raises nothing.
StaleCacheFallback ==
    (/\ pc = "done" /\ req.use_cache /\ req.retries >= 1
     /\ accepted.src = "none" /\ YahooCalls(calls) = req.retries
     /\ cache.exists) =>
        result = Rows(Retagged(RowsInRange(cache.rows, req), "GC=F"))

CacheAccesses(log) == SelectSeq(log, LAMBDA c : c.src = "cache")

\* C20. Caching disabled: every step of a call made with use_cache = False
\* leaves the cache file as it was, and the call makes no read or write of it,
\* whether it ends with rows from a provider or with an exception.
CacheUntouchedWhenDisabled ==
    [][(pc' # "idle" /\ ~req'.use_cache) =>
          /\ cache' = cache
          /\ CacheAccesses(calls') = <<>>]_vars

\* C20 witness: a call with caching disabled that returned a provider's rows
\* while the cache file, written by an earlier call, holds other rows.
CacheUntouchedWitness ==
    /\ pc = "done" /\ ~req.use_cache
    /\ result.kind = "rows" /\ accepted.src \in {"A", "B", "C"}
    /\ cache.exists
    /\ DatesOf(cache.rows) # DatesOf(result.rows)

====
